---- MODULE Spec2Model ----
\* A model of the pysockr server (inst/py-src/pysockr.py, inst/py-src/server.py):
\* a single-threaded TCP accept loop that reads one payload per connection,
\* either acknowledges the quit sentinel or executes the payload under the
\* stdoutIO capture scope, sends the captured text back and cleans the
\* connection up in a finally block.
\*
\* Bytes are one-element strings.  "0xC3" "0xA9" is the two-byte UTF-8 form
\* of the character "U+E9"; every other byte used here is ASCII.
\* The Python interpreter behind exec() is outside the repository; a payload
\* is read as a sequence of one-character statements:
\*    " "          does nothing
\*    "p"          print(1+1): writes "2" and a newline to sys.stdout
\*    "("          does not compile (SyntaxError, nothing runs)
\*    other chars  an undefined name (NameError when it is reached)
\* A client's payload is in the socket buffer when recv is called.
EXTENDS Integers, Sequences, FiniteSets, TLC

VARIABLES
  pc,          \* position of the server's only thread
  SERVER,      \* the listening socket: "listening" or "closed"
  CONN,        \* the local CONN: 0 while unbound, else a connection's index
  conns,       \* the connections clients have made, in arrival order
  data,        \* the local data (decoded text)
  result,      \* the local result
  execout,     \* the local execout: a stream index, 0 while unbound
  sys_stdout,  \* sys.stdout: index of the active stream
  streams,     \* contents of the text streams; streams[Console] is the terminal
  frames,      \* suspended stdoutIO generator frames (their local old), innermost last
  exc,         \* the exception in flight, "none" when there is none
  brk          \* the break at line 56 is pending through the finally block

vars == <<pc, SERVER, CONN, conns, data, result, execout, sys_stdout, streams,
          frames, exc, brk>>

\* ---------------------------------------------------------------- bounds
MaxConns == 2
MaxWrites == 2
MaxDepth == 2

\* ------------------------------------------------------ program constants
BUFSIZE == 1024
Console == 1

QUIT == <<"Q", "U", "I", "T">>
quit == <<"q", "u", "i", "t">>
NL == "\n"
Marker == "pysockr-error\n"

\* ------------------------------------------------------------- helpers
Pad(n) == [i \in 1..n |-> " "]

Take(s, n) == SubSeq(s, 1, IF Len(s) < n THEN Len(s) ELSE n)

\* "pat in s" for Python strings
Contains(s, pat) ==
  \/ pat = <<>>
  \/ \E i \in 1..(Len(s) - Len(pat) + 1) :
       s[i] = pat[1] /\ SubSeq(s, i, i + Len(pat) - 1) = pat

\* CONN.recv(1024): one read of at most BUFSIZE bytes of what the peer sent
recv(sent) == Take(sent, BUFSIZE)

\* bytes.decode('UTF-8') succeeds iff every lead byte is followed by its
\* continuation byte and no continuation byte stands alone
ValidUTF8(b) ==
  \A i \in 1..Len(b) :
    /\ b[i] = "0xC3" => (i < Len(b) /\ b[i + 1] = "0xA9")
    /\ b[i] = "0xA9" => (i > 1 /\ b[i - 1] = "0xC3")

NotCont(x) == x # "0xA9"

decode(b) ==
  LET s == SelectSeq(b, NotCont)
  IN  [i \in 1..Len(s) |-> IF s[i] = "0xC3" THEN "U+E9" ELSE s[i]]

\* str.encode('UTF-8'), by halves
RECURSIVE encode(_)
encode(t) ==
  IF t = <<>> THEN <<>>
  ELSE IF Len(t) = 1
       THEN (IF t[1] = "U+E9" THEN <<"0xC3", "0xA9">> ELSE t)
       ELSE LET h == Len(t) \div 2
            IN  encode(SubSeq(t, 1, h)) \o encode(SubSeq(t, h + 1, Len(t)))

\* "quit" in data
IsQuit_exact(text) == text = quit

IsQuit(text) == Contains(text, quit)

\* file.write(s) on stream d
Write_overwrite(strs, d, s) == [strs EXCEPT ![d] = s]

Write(strs, d, s) == [strs EXCEPT ![d] = @ \o s]

\* print(s): writes s and a newline to the stream that is sys.stdout now
print(strs, d, s) == Write(strs, d, s \o <<NL>>)


\* ------------------------------------------------- the payload interpreter
Min(S) == CHOOSE i \in S : \A j \in S : i <= j

Compiles(text) == \A i \in 1..Len(text) : text[i] # "("

\* exec(compile(str(data), "<from R>", "exec")): what the payload writes to
\* sys.stdout, and the exception it ends with ("none" when it returns)
Exec(text) ==
  IF ~Compiles(text)
  THEN [out |-> <<>>, kind |-> "SyntaxError",
        trace |-> <<"Traceback", "SyntaxError">>]
  ELSE LET names == {i \in 1..Len(text) : text[i] \notin {" ", "p"}}
           stop  == IF names = {} THEN Len(text) + 1 ELSE Min(names)
           n     == Cardinality({i \in 1..(stop - 1) : text[i] = "p"})
           out   == [j \in 1..(2 * n) |-> IF j % 2 = 1 THEN "2" ELSE NL]
       IN  IF names = {}
           THEN [out |-> out, kind |-> "none", trace |-> <<>>]
           ELSE [out |-> out, kind |-> "NameError",
                 trace |-> <<"Traceback", "NameError", text[stop]>>]

\* The except clause of line 62: the exception that leaves the try statement
\* when the payload ended with an exception of this kind.  A bare except
\* catches every kind
ExceptClause_absent(kind) == kind

ExceptClause(kind) == "none"

\* Line 63: what the handler writes for a caught exception
HandlerText(r) == <<Marker>> \o r.trace

NoRun == [out |-> <<>>, kind |-> "none", trace |-> <<>>]

\* --------------------------------------------------------------- stdoutIO
\* Lines 19-22, up to the yield: sys.stdout is saved in the generator's old;
\* a new StringIO is made when no stream is given; the stream becomes sys.stdout
stdoutIO_sink_reused(strs, arg) == IF arg # 0 THEN arg ELSE
                                    IF Len(strs) > Console THEN Len(strs)
                                    ELSE Len(strs) + 1

stdoutIO_sink(strs, arg) == IF arg = 0 THEN Len(strs) + 1 ELSE arg

stdoutIO_streams(strs, arg) ==
  IF stdoutIO_sink(strs, arg) > Len(strs) THEN Append(strs, <<>>) ELSE strs

\* Line 22: the stream is made sys.stdout
stdoutIO_install_missing(cur, sink) == cur

stdoutIO_install(cur, sink) == sink

\* Line 24, after the yield.  contextlib resumes the generator at the yield
\* when the body returned; when the body raised, the exception is thrown into
\* the generator at the yield and leaves it at once, so line 24 does not run
stdoutIO_after_never(raised, cur, old) == cur

stdoutIO_after(raised, cur, old) == IF raised THEN cur ELSE old


\* ------------------------------------------------------------ the clients
\* What clients send.  The long ones put the byte that matters at the
\* edge of the read buffer.
Payloads ==
  { <<"p">>,                                  \* print(1+1)
    <<" ">>,                                  \* writes nothing
    <<"p", "u">>,                             \* writes, then fails
    <<"(">>,                                  \* does not compile
    <<"0xC3", "0xA9">>,                       \* a non-ASCII name
    <<"0xA9">>,                               \* not UTF-8
    quit,
    <<"p", " ">> \o quit \o <<" ">>,          \* quit inside a longer text
    Pad(BUFSIZE - 1) \o <<"p">>,              \* exactly BUFSIZE bytes
    Pad(BUFSIZE) \o <<"p">>,                  \* one byte too long
    Pad(BUFSIZE - 3) \o quit,                 \* quit across the edge
    Pad(BUFSIZE - 1) \o <<"0xC3", "0xA9">> }  \* a character across the edge

NewConn(p) ==
  [payload |-> p, st |-> "queued", shut |-> FALSE, got |-> FALSE, text |-> <<>>,
   answered |-> FALSE, response |-> <<>>, captured |-> FALSE, executed |-> FALSE,
   run |-> NoRun,
   fault |-> "none", shutfail |-> FALSE]

Queued == {k \in 1..Len(conns) : conns[k].st = "queued"}

\* A client connects and sends its payload; the connection waits in the
\* listen queue (line 43) until the server accepts it
ClientConnect ==
  /\ SERVER = "listening"
  /\ Len(conns) < MaxConns
  /\ \E p \in Payloads : conns' = Append(conns, NewConn(p))
  /\ UNCHANGED <<pc, SERVER, CONN, data, result, execout, sys_stdout, streams,
                 frames, exc, brk>>

\* --------------------------------------------------------- the server loop
\* Lines 48-49
Accept ==
  /\ pc = "accept"
  /\ \/ /\ Queued # {}
        /\ LET k == Min(Queued) IN
             /\ conns' = [conns EXCEPT ![k].st = "open"]
             /\ CONN' = k
        /\ streams' = print(streams, sys_stdout, <<"new connection">>)
        /\ pc' = "recv"
        /\ exc' = exc
     \/ /\ exc' = "OSError"            \* accept raised
        /\ pc' = "finally"
        /\ UNCHANGED <<conns, CONN, streams>>
  /\ UNCHANGED <<SERVER, data, result, execout, sys_stdout, frames, brk>>

\* Lines 51-54 and 57
Recv ==
  /\ pc = "recv"
  /\ \/ /\ exc' = "OSError"            \* recv raised
        /\ conns' = [conns EXCEPT ![CONN].fault = "recv"]
        /\ pc' = "finally"
        /\ UNCHANGED <<data, result, streams>>
     \/ LET b == recv(conns[CONN].payload) IN
          IF ~ValidUTF8(b)
          THEN /\ exc' = "UnicodeDecodeError"
               /\ conns' = [conns EXCEPT ![CONN].fault = "decode"]
               /\ pc' = "finally"
               /\ UNCHANGED <<data, result, streams>>
          ELSE /\ data' = decode(b)
               /\ conns' = [conns EXCEPT ![CONN].got = TRUE,
                                         ![CONN].text = decode(b)]
               /\ exc' = exc
               /\ IF IsQuit(data')
                  THEN /\ result' = QUIT
                       /\ pc' = "quit_send"
                       /\ streams' = streams
                  ELSE /\ streams' = print(streams, sys_stdout,
                                           <<"from connected  user: ">> \o data')
                       /\ pc' = "capture"
                       /\ result' = result
  /\ UNCHANGED <<SERVER, CONN, execout, sys_stdout, frames, brk>>

\* Lines 55-56
QuitSend ==
  /\ pc = "quit_send"
  /\ \/ /\ conns' = [conns EXCEPT ![CONN].answered = TRUE,
                                  ![CONN].response = encode(result)]
        /\ brk' = TRUE
        /\ exc' = exc
     \/ /\ exc' = "OSError"            \* sendall raised
        /\ conns' = [conns EXCEPT ![CONN].fault = "send"]
        /\ brk' = brk
  /\ pc' = "finally"
  /\ UNCHANGED <<SERVER, CONN, data, result, execout, sys_stdout, streams, frames>>

\* Line 59: with stdoutIO() as execout
Capture ==
  /\ pc = "capture"
  /\ frames' = Append(frames, [old |-> sys_stdout])
  /\ streams' = stdoutIO_streams(streams, 0)
  /\ sys_stdout' = stdoutIO_install(sys_stdout, stdoutIO_sink(streams, 0))
  /\ execout' = stdoutIO_sink(streams, 0)
  /\ conns' = [conns EXCEPT ![CONN].captured = TRUE]
  /\ pc' = "exec"
  /\ UNCHANGED <<SERVER, CONN, data, result, exc, brk>>

\* Lines 60-63
ExecPayload ==
  /\ pc = "exec"
  /\ LET r == Exec(data) IN
       /\ exc' = ExceptClause(r.kind)
       /\ streams' = IF r.kind # "none" /\ exc' = "none"
                     THEN print(Write(streams, sys_stdout, r.out), sys_stdout,
                                HandlerText(r))
                     ELSE Write(streams, sys_stdout, r.out)
       /\ conns' = [conns EXCEPT ![CONN].executed = TRUE, ![CONN].run = r]
  /\ pc' = "leave"
  /\ UNCHANGED <<SERVER, CONN, data, result, execout, sys_stdout, frames, brk>>

\* Leaving the with statement of line 59
Leave ==
  /\ pc = "leave"
  /\ sys_stdout' = stdoutIO_after(exc # "none", sys_stdout, frames[Len(frames)].old)
  /\ frames' = SubSeq(frames, 1, Len(frames) - 1)
  /\ pc' = IF exc # "none" THEN "finally" ELSE "getvalue"
  /\ UNCHANGED <<SERVER, CONN, conns, data, result, execout, streams, exc, brk>>

\* Lines 65-66
GetValue ==
  /\ pc = "getvalue"
  /\ result' = streams[execout]
  /\ streams' = print(streams, sys_stdout, <<"sending: ">> \o result')
  /\ pc' = "send"
  /\ UNCHANGED <<SERVER, CONN, conns, data, execout, sys_stdout, frames, exc, brk>>

\* Line 67
Send ==
  /\ pc = "send"
  /\ \/ /\ conns' = [conns EXCEPT ![CONN].answered = TRUE,
                                  ![CONN].response = encode(result)]
        /\ exc' = exc
     \/ /\ exc' = "OSError"            \* sendall raised
        /\ conns' = [conns EXCEPT ![CONN].fault = "send"]
  /\ pc' = "finally"
  /\ UNCHANGED <<SERVER, CONN, data, result, execout, sys_stdout, streams, frames, brk>>

\* Lines 71-72 on a connection whose shutdown succeeds
Cleanup_noclose(c) == [c EXCEPT !.shut = TRUE]

Cleanup(c) == [c EXCEPT !.shut = TRUE, !.st = "closed"]

\* Where control goes when the finally block of lines 68-72 is done: the try
\* statement has no except clause, so an exception in flight goes on out of
\* the loop; else the break of line 56 leaves the loop; else the loop goes round
AfterFinally_swallow(e, b) == IF b THEN "closing" ELSE "accept"

AfterFinally_nobreak(e, b) == IF e # "none" THEN "closing" ELSE "accept"

AfterFinally(e, b) == IF e # "none" \/ b THEN "closing" ELSE "accept"

\* contextlib.closing(SERVER).__exit__: SERVER.close()
closing_exit_leak(s) == s

closing_exit(s) == "closed"

\* Lines 68-72, and where control goes from the finally block: on with the
\* exception in flight, else out of the loop on break, else round the loop
Finally ==
  /\ pc = "finally"
  /\ streams' = print(streams, sys_stdout, <<"closing connection">>)
  /\ IF CONN = 0
     THEN /\ exc' = "UnboundLocalError"      \* CONN was never assigned
          /\ conns' = conns
          /\ pc' = "closing"
     ELSE IF conns[CONN].st # "open"
     THEN /\ exc' = "OSError"                \* shutdown of a closed socket
          /\ conns' = conns
          /\ pc' = "closing"
     ELSE \/ /\ conns' = [conns EXCEPT ![CONN] = Cleanup(@)]
             /\ exc' = exc
             /\ pc' = AfterFinally(exc, brk)
          \/ /\ exc' = "OSError"             \* shutdown raised: close is skipped
             /\ conns' = [conns EXCEPT ![CONN].shutfail = TRUE]
             /\ pc' = "closing"
  /\ UNCHANGED <<SERVER, CONN, data, result, execout, sys_stdout, frames, brk>>

\* Line 39: contextlib.closing closes SERVER when the with block is left
ServerClose ==
  /\ pc = "closing"
  /\ SERVER' = closing_exit(SERVER)
  /\ pc' = IF exc # "none" THEN "raised" ELSE "goodbye"
  /\ UNCHANGED <<CONN, conns, data, result, execout, sys_stdout, streams, frames,
                 exc, brk>>

\* Line 74, and the return
Return ==
  /\ pc = "goodbye"
  /\ streams' = print(streams, sys_stdout, <<"shutting down server">>)
  /\ pc' = "returned"
  /\ UNCHANGED <<SERVER, CONN, conns, data, result, execout, sys_stdout, frames,
                 exc, brk>>

\* Lines 39-44 have run: the socket listens and the first line is printed
Init ==
  /\ pc = "accept"
  /\ SERVER = "listening"
  /\ CONN = 0
  /\ conns = <<>>
  /\ data = <<>>
  /\ result = <<>>
  /\ execout = 0
  /\ sys_stdout = Console
  /\ streams = <<<<"server is listening", NL>>>>
  /\ frames = <<>>
  /\ exc = "none"
  /\ brk = FALSE

Next ==
  \/ ClientConnect
  \/ Accept
  \/ Recv
  \/ QuitSend
  \/ Capture
  \/ ExecPayload
  \/ Leave
  \/ GetValue
  \/ Send
  \/ Finally
  \/ ServerClose
  \/ Return

Spec == Init /\ [][Next]_vars

\* Every blocking call of the handling of an accepted connection completes
\* (returns or raises) and every payload execution returns: the thread always
\* takes its next step from recv on.  Nothing is assumed of clients arriving.
HandlingStep ==
  \/ Recv
  \/ QuitSend
  \/ Capture
  \/ ExecPayload
  \/ Leave
  \/ GetValue
  \/ Send
  \/ Finally
  \/ ServerClose
  \/ Return

SpecLive == Init /\ [][Next]_vars /\ WF_vars(HandlingStep)


\* ------------------------------------------- stdoutIO under any with body
\* Code that uses stdoutIO as a context manager, with bodies that write, nest
\* another scope, return or raise.  An exception that leaves a with statement
\* is caught by the code around it, which goes on.
CapEnter ==
  /\ pc = "user"
  /\ Len(frames) < MaxDepth
  /\ \E arg \in 0..Len(streams) :
       /\ arg = 0 => Len(streams) <= MaxDepth
       /\ frames' = Append(frames, [old |-> sys_stdout])
       /\ streams' = stdoutIO_streams(streams, arg)
       /\ sys_stdout' = stdoutIO_install(sys_stdout, stdoutIO_sink(streams, arg))
  /\ UNCHANGED <<pc, SERVER, CONN, conns, data, result, execout, exc, brk>>

CapWrite ==
  /\ pc = "user"
  /\ Len(streams[sys_stdout]) < 2 * MaxWrites
  /\ streams' = print(streams, sys_stdout, <<"x">>)
  /\ UNCHANGED <<pc, SERVER, CONN, conns, data, result, execout, sys_stdout,
                 frames, exc, brk>>

CapReturn ==
  /\ pc = "user"
  /\ frames # <<>>
  /\ sys_stdout' = stdoutIO_after(FALSE, sys_stdout, frames[Len(frames)].old)
  /\ frames' = SubSeq(frames, 1, Len(frames) - 1)
  /\ UNCHANGED <<pc, SERVER, CONN, conns, data, result, execout, streams, exc, brk>>

CapRaise ==
  /\ pc = "user"
  /\ frames # <<>>
  /\ sys_stdout' = stdoutIO_after(TRUE, sys_stdout, frames[Len(frames)].old)
  /\ frames' = SubSeq(frames, 1, Len(frames) - 1)
  /\ UNCHANGED <<pc, SERVER, CONN, conns, data, result, execout, streams, exc, brk>>

InitCapture ==
  /\ pc = "user"
  /\ SERVER = "closed"
  /\ CONN = 0
  /\ conns = <<>>
  /\ data = <<>>
  /\ result = <<>>
  /\ execout = 0
  /\ sys_stdout = Console
  /\ streams = <<<<>>>>
  /\ frames = <<>>
  /\ exc = "none"
  /\ brk = FALSE

NextCapture ==
  \/ CapEnter
  \/ CapWrite
  \/ CapReturn
  \/ CapRaise

SpecCapture == InitCapture /\ [][NextCapture]_vars


\* ======================================================== the properties
Conns == 1..Len(conns)

LogLines == {"server is listening", "new connection", "from connected  user: ",
             "sending: ", "closing connection", "shutting down server"}

\* Everything written to sys.stdout inside the capture scope of a run of the
\* payload: the payload's own writes, then the diagnostic if it failed
Captured(r) ==
  r.out \o (IF r.kind = "none" THEN <<>> ELSE <<Marker>> \o r.trace \o <<NL>>)

Terminated == pc \in {"returned", "raised"}

\* C1: every response sent on a connection whose received text does not
\* contain "quit" is exactly the text written to standard output while that
\* text was executed (empty when nothing was written), and holds none of the
\* server's log lines.
C1_ResponseIsCapturedOutput ==
  \A k \in Conns :
    (conns[k].answered /\ ~Contains(conns[k].text, quit)) =>
      /\ conns[k].executed
      /\ conns[k].response = encode(Captured(conns[k].run))
      /\ \A i \in 1..Len(conns[k].response) : conns[k].response[i] \notin LogLines

C1_Witness ==
  /\ Len(conns) = 2
  /\ conns[1].answered /\ conns[1].text = <<"p">> /\ conns[1].response = <<"2", NL>>
  /\ conns[2].answered /\ conns[2].text = <<" ">> /\ conns[2].response = <<>>

\* C2: a received text that contains "quit" anywhere is answered with exactly
\* "QUIT", is never executed, never has standard output redirected for it, and
\* is the last connection the server accepts.
C2_QuitAnywhere ==
  \A k \in Conns :
    (conns[k].got /\ Contains(conns[k].text, quit)) =>
      /\ conns[k].answered => conns[k].response = QUIT
      /\ ~conns[k].executed
      /\ ~conns[k].captured
      /\ sys_stdout = Console
      /\ pc \in {"quit_send", "finally", "closing", "goodbye", "returned", "raised"}
      /\ \A j \in Conns : j > k => conns[j].st = "queued"

C2_Witness ==
  \E k \in Conns :
    /\ conns[k].got /\ Contains(conns[k].text, quit) /\ conns[k].text # quit
    /\ conns[k].answered
    /\ pc = "returned"
    /\ \E j \in Conns : j > k /\ conns[j].st = "queued"

\* C3: a payload that fails to compile or to run does not make an exception
\* leave the execution step; its response holds the marker "pysockr-error"
\* followed by the trace; and the loop goes on to the next accept.
C3_ExecFailureContained ==
  \A k \in Conns :
    (conns[k].executed /\ conns[k].run.kind # "none") =>
      /\ conns[k].fault \in {"none", "send"}
      /\ (CONN = k /\ pc \in {"leave", "getvalue", "send"}) => exc = "none"
      /\ conns[k].answered =>
           Contains(conns[k].response,
                    encode(<<Marker>> \o conns[k].run.trace \o <<NL>>))
      /\ (CONN = k /\ pc = "finally" /\ conns[k].st = "open"
            /\ conns[k].fault = "none") =>
           AfterFinally(exc, brk) = "accept"

C3_Witness ==
  /\ Len(conns) = 2
  /\ conns[1].answered /\ conns[1].run.kind = "SyntaxError"
  /\ conns[1].st = "closed"
  /\ conns[2].answered /\ conns[2].response = <<"2", NL>>
  /\ conns[2].st = "closed"
  /\ pc = "accept"

\* C4: whenever the server is about to accept or has left the loop, every
\* connection it accepted has been shut down and closed.
C4_ClosedOnEveryPath ==
  pc \in {"accept", "closing", "goodbye", "returned", "raised"} =>
    \A k \in Conns : conns[k].st # "queued" => (conns[k].st = "closed" /\ conns[k].shut)

\* C5 as stated: after a read or a write on a connection raised, the server
\* does not leave its loop, unless the payload was the quit sentinel.
C5_FaultContained ==
  \A k \in Conns :
    (conns[k].fault \in {"recv", "send"} /\ ~(conns[k].got /\ Contains(conns[k].text, quit))) =>
      pc \notin {"closing", "goodbye", "returned", "raised"}

\* C5 as amended: a read or write exception is not caught.  The connection's
\* cleanup block still runs, and then the exception goes on out of the loop:
\* the server never accepts again and never returns normally.
C5_FaultPropagatesAfterCleanup ==
  \A k \in Conns :
    conns[k].fault \in {"recv", "send"} =>
      /\ CONN = k
      /\ exc # "none"
      /\ pc \in {"finally", "closing", "raised"}
      /\ pc # "finally" => (conns[k].st = "closed" \/ conns[k].shutfail)

C5_Witness ==
  \E k \in Conns :
    /\ conns[k].fault = "send" /\ ~Contains(conns[k].text, quit)
    /\ conns[k].st = "closed"
    /\ pc = "raised"

\* C6: whenever a stdoutIO scope is left, by return or by exception, the
\* active destination is the one that was active when it was entered.
C6_RestoredOnEveryExit ==
  [][Len(frames') < Len(frames) => sys_stdout' = frames[Len(frames)].old]_vars

\* C7: at most one accepted connection is open; a connection is accepted
\* only when every earlier one is closed; so a client gets no response
\* before every connection ahead of it is closed.
C7_OneAtATime ==
  /\ Cardinality({k \in Conns : conns[k].st = "open"}) <= 1
  /\ \A k \in Conns :
       (conns[k].st # "queued" \/ conns[k].answered) =>
         \A j \in 1..(k - 1) : conns[j].st = "closed"

C7_Witness ==
  /\ Len(conns) = 2
  /\ pc = "exec"
  /\ conns[1].st = "open"
  /\ conns[2].st = "queued" /\ ~conns[2].answered

\* C8: after a read, a decode or a write raised, the exception stays in
\* flight out of the loop: the server accepts nothing more, does not return
\* normally, and has closed the listening socket when it has terminated.
C8_TransportFaultPropagates ==
  \A k \in Conns :
    conns[k].fault \in {"recv", "decode", "send"} =>
      /\ exc # "none"
      /\ pc \in {"finally", "closing", "raised"}
      /\ \A j \in Conns : j > k => conns[j].st = "queued"
      /\ Terminated => SERVER = "closed"

C8_Witness ==
  /\ Len(conns) = 2
  /\ conns[1].fault = "decode"
  /\ conns[2].st = "queued"
  /\ pc = "raised"
  /\ SERVER = "closed"

\* C9: once a connection has been read without a transport error, the text
\* in use is the decoding of the first BUFSIZE bytes of what the client sent
\* (all of it when it is no longer than BUFSIZE), and cutting a longer
\* UTF-8 payload raises no error.
C9_SilentTruncation ==
  \A k \in Conns :
    LET c == conns[k] IN
      (c.st # "queued" /\ ~(CONN = k /\ pc = "recv") /\ c.fault # "recv"
         /\ ValidUTF8(c.payload)) =>
        /\ c.fault # "decode"
        /\ c.got
        /\ encode(c.text) = Take(c.payload, BUFSIZE)

\* C10: two connections that received the same text, not containing "quit",
\* get the same response, and every execution starts on an empty buffer.
C10_SamePayloadSameResponse ==
  /\ \A j, k \in Conns :
       (/\ j < k
        /\ conns[j].answered /\ conns[k].answered
        /\ conns[j].text = conns[k].text
        /\ ~Contains(conns[j].text, quit)) => conns[j].response = conns[k].response
  /\ pc = "exec" => streams[execout] = <<>>

C10_Witness ==
  /\ Len(conns) = 2
  /\ conns[1].answered /\ conns[2].answered
  /\ conns[1].text = <<"p", "u">> /\ conns[2].text = <<"p", "u">>
  /\ conns[1].response # <<>>
  /\ conns[1].response = conns[2].response


\* C11 as stated: the listening socket is open until a quit payload has been
\* handled: once it is closed, some connection received "quit", was sent
\* "QUIT" and was shut down and closed.
C11_OpenUntilQuitHandled ==
  SERVER = "closed" =>
    \E k \in Conns :
      /\ conns[k].got /\ Contains(conns[k].text, quit)
      /\ conns[k].answered /\ conns[k].response = QUIT
      /\ conns[k].shut /\ conns[k].st = "closed"

\* C11 as amended: the one listening socket is open exactly until the with
\* block of line 39 is left, by the break of a quit or by an exception.  On
\* the quit path the order is: "QUIT" is sent (the connection and the
\* listening socket still open), the connection is shut down and closed (the
\* listening socket still open), the listening socket is closed, the entry
\* point returns; and the entry point returns normally only this way.
C11_QuitOrder ==
  /\ SERVER = "closed" <=> pc \in {"goodbye", "returned", "raised"}
  /\ brk => /\ pc \in {"finally", "closing", "goodbye", "returned", "raised"}
            /\ conns[CONN].answered /\ conns[CONN].response = QUIT
  /\ (brk /\ pc = "finally") => conns[CONN].st = "open"
  /\ (pc = "closing" /\ exc = "none") =>
       (brk /\ conns[CONN].shut /\ conns[CONN].st = "closed")
  /\ pc \in {"goodbye", "returned"} =>
       (brk /\ exc = "none" /\ conns[CONN].shut /\ conns[CONN].st = "closed")

C11_Witness ==
  /\ pc = "returned"
  /\ SERVER = "closed"
  /\ Len(conns) = 2
  /\ conns[1].response = <<"2", NL>> /\ conns[1].st = "closed"
  /\ conns[2].response = QUIT /\ conns[2].st = "closed"


\* C12: sys.stdout is a capture buffer only between entering the with
\* statement of line 59 and leaving it, for a text without "quit"; while the
\* server accepts, reads, sends, cleans up or has shut down it is the
\* original destination, and it is already restored when the captured text
\* is read and the response is written.
C12_RedirectedOnlyWhileExecuting ==
  /\ pc \notin {"exec", "leave"} => (sys_stdout = Console /\ frames = <<>>)
  /\ pc \in {"exec", "leave"} =>
       /\ sys_stdout = execout /\ execout # Console
       /\ frames = <<[old |-> Console]>>
       /\ ~Contains(data, quit)
  /\ pc = "send" => result = streams[execout]

C12_Witness ==
  /\ pc = "send"
  /\ sys_stdout = Console
  /\ result = <<"2", NL>>
  /\ conns[CONN].captured /\ conns[CONN].executed


\* C13: the response to a payload that failed begins with everything the
\* payload wrote before it failed; the diagnostic comes right after it, first
\* the line "pysockr-error", then the trace, and nothing follows.
C13_OutputKeptBeforeDiagnostic ==
  \A k \in Conns :
    (conns[k].answered /\ conns[k].run.kind # "none") =>
      LET resp == conns[k].response
          n    == Len(encode(conns[k].run.out))
      IN  /\ Len(resp) > n
          /\ SubSeq(resp, 1, n) = encode(conns[k].run.out)
          /\ resp[n + 1] = Marker
          /\ SubSeq(resp, n + 2, Len(resp)) = encode(conns[k].run.trace \o <<NL>>)

C13_Witness ==
  \E k \in Conns :
    /\ conns[k].text = <<"p", "u">>
    /\ conns[k].answered
    /\ conns[k].response = <<"2", NL, Marker, "Traceback", "NameError", "u", NL>>


\* C14: whenever the cleanup block is about to run, CONN is bound, and bound
\* to the connection accepted in this iteration of the loop, which is still
\* open (so no connection is shut down or closed a second time).
C14_CleanupOnCurrentConnection ==
  pc = "finally" => (CONN # 0 /\ conns[CONN].st = "open")

\* C15: a connection whose shutdown raised in the cleanup block is closed
\* all the same.
C15_ClosedWhenShutdownFails ==
  \A k \in Conns : conns[k].shutfail => conns[k].st = "closed"


ConnIs(k, st) == IF k \in Conns THEN conns[k].st = st ELSE FALSE

QuitReceived ==
  IF CONN \in Conns
  THEN conns[CONN].got /\ Contains(conns[CONN].text, quit)
  ELSE FALSE

\* C16: when no call blocks for ever, every accepted connection is
\* eventually closed, after which the server is eventually accepting again or
\* terminated; and once a text containing "quit" has been received the
\* server eventually terminates with the listening socket closed.
C16_EveryConnectionClosedEventually ==
  /\ \A k \in 1..MaxConns : ConnIs(k, "open") ~> ConnIs(k, "closed")
  /\ \A k \in 1..MaxConns : ConnIs(k, "closed") ~> (pc = "accept" \/ Terminated)
  /\ QuitReceived ~> (Terminated /\ SERVER = "closed")

====
